---------------------------- MODULE Spec2Model ----------------------------
(* devtunnel-tui: the Bubble Tea state machine of the terminal front-end   *)
(* in its two variants, the flat menu of src/main.go and the categorized   *)
(* menu of src/unnamed/part_000, together with the process runner          *)
(* (runCommandCmd), the startup probe (checkBinaryCmd) and the delivery of *)
(* their messages to Update by the Bubble Tea event loop.                  *)
(*                                                                         *)
(* A text field's value is a sequence of one-character strings; an         *)
(* argument vector is a sequence of strings.  The record m is the Go       *)
(* struct model of the variant being run.                                  *)
EXTENDS Naturals, Integers, Sequences, FiniteSets, TLC

VARIABLES
  variant,  \* "flat" (src/main.go) or "cat" (src/unnamed/part_000)
  m,        \* the model struct the event loop holds
  probe,    \* the messages the probe command has still to deliver
  runs,     \* the sequences of runCommandCmd that have not finished
  log,      \* per execution (0: the probe), the messages Update has applied
  quit      \* tea.Quit was returned: the program has ended

vars == <<variant, m, probe, runs, log, quit>>

-----------------------------------------------------------------------------
(* Bounds of the exploration.                                              *)

\* Longest text the operator types into one text field.
MaxLen == 3

\* Number of executions the operator dispatches in one session.
MaxRuns == 2

\* The characters the operator types into text fields.
Chars == {"a", " "}

\* What a child process that started may have written when it ends.
Outputs == {"out"}

-----------------------------------------------------------------------------
(* strings and text fields                                                 *)

\* unicode.IsSpace on the characters that occur.
IsSpace(c) == c = " "

RECURSIVE TrimLeft(_)
TrimLeft(s) ==
  IF s = <<>> THEN <<>>
  ELSE IF IsSpace(Head(s)) THEN TrimLeft(Tail(s)) ELSE s

RECURSIVE TrimRight(_)
TrimRight(s) ==
  IF s = <<>> THEN <<>>
  ELSE IF IsSpace(s[Len(s)]) THEN TrimRight(SubSeq(s, 1, Len(s) - 1)) ELSE s

\* strings.TrimSpace
TrimSpace(s) == TrimRight(TrimLeft(s))

\* strings.Fields: cur is the field being read, acc the fields read so far.
RECURSIVE FieldsFrom(_, _, _)
FieldsFrom(s, cur, acc) ==
  IF s = <<>> THEN (IF cur = <<>> THEN acc ELSE Append(acc, cur))
  ELSE IF IsSpace(Head(s))
       THEN FieldsFrom(Tail(s), <<>>, IF cur = <<>> THEN acc ELSE Append(acc, cur))
       ELSE FieldsFrom(Tail(s), Append(cur, Head(s)), acc)

Fields(s) == FieldsFrom(s, <<>>, <<>>)

\* The Go string of a sequence of characters.
RECURSIVE Str(_)
Str(s) == IF s = <<>> THEN "" ELSE Head(s) \o Str(Tail(s))

StrEach(ss) == [i \in 1..Len(ss) |-> Str(ss[i])]

\* strings.Join
RECURSIVE Join(_, _)
Join(parts, sep) ==
  IF parts = <<>> THEN ""
  ELSE IF Len(parts) = 1 THEN parts[1]
  ELSE parts[1] \o sep \o Join(Tail(parts), sep)

\* Keys that carry a rune: a focused text input inserts it.
RuneKeys == Chars \cup {"q", "r", "j", "k", "h", "l", "L", "g", "G", "u", "d",
                         "?", ":", "/", "1", "2", "3", "4", "5", "6"}

\* textinput.Model.Update on a key: a rune is appended at the cursor (the
\* end of the text), backspace deletes the character before the cursor; any
\* other key leaves the value as it is.
TextInputUpdate(value, k) ==
  IF k \in RuneKeys THEN Append(value, k)
  ELSE IF k = "backspace" /\ value # <<>> THEN SubSeq(value, 1, Len(value) - 1)
  ELSE value

-----------------------------------------------------------------------------
(* messages and commands                                                   *)

KeyMsg(k) == [type |-> "KeyMsg", key |-> k]

\* runStartedMsg{command} (main.go), runStartedMsg{cmdText} (part_000)
runStartedMsg(cmdText) == [type |-> "runStartedMsg", cmdText |-> cmdText]

\* runResultMsg{command, output, err} (main.go),
\* runFinishedMsg{cmdText, output, err} (part_000); err is "nil" or the error
runFinishedMsg(cmdText, output, err) ==
  [type |-> "runFinishedMsg", cmdText |-> cmdText, output |-> output, err |-> err]

\* tea.WindowSizeMsg{Width, Height}
WindowSizeMsg(w, h) == [type |-> "WindowSizeMsg", width |-> w, height |-> h]

\* max of two ints (main.go lines 479-484, part_000 lines 730-735)
max(a, b) == IF a > b THEN a ELSE b

\* a nil tea.Cmd
NilCmd == [kind |-> "nil"]

\* tea.Quit
QuitCmd == [kind |-> "quit"]

\* textinput.Blink, spinner.Tick, the viewport's command: no message that
\* changes the model's fields
UiCmd == [kind |-> "ui"]

\* runCommandCmd: nil for an empty vector, else the tea.Sequence of the
\* started notification and the child process run
runCommandCmd(parts) ==
  IF Len(parts) = 0 THEN NilCmd
  ELSE [kind |-> "sequence", parts |-> parts, cmdText |-> Join(parts, " ")]

\* the probe's sentinel command text
ProbeText == "which devtunnel"


-----------------------------------------------------------------------------
(* the flat variant: src/main.go                                           *)

defaultCommands ==
  <<
    [label |-> "user login", description |-> "Authenticate user credentials", baseArgs |-> <<"user", "login">>,
     requiredArgs |-> <<>>, optionalArg |-> ""],
    [label |-> "user logout", description |-> "Remove local credentials", baseArgs |-> <<"user", "logout">>,
     requiredArgs |-> <<>>, optionalArg |-> ""],
    [label |-> "list", description |-> "List tunnels", baseArgs |-> <<"list">>,
     requiredArgs |-> <<>>, optionalArg |-> "optional args (example: --all)"],
    [label |-> "show", description |-> "Show tunnel details", baseArgs |-> <<"show">>,
     requiredArgs |-> <<"tunnel-id">>, optionalArg |-> "optional args"],
    [label |-> "create", description |-> "Create a tunnel", baseArgs |-> <<"create">>,
     requiredArgs |-> <<"tunnel-id">>, optionalArg |-> "optional args"],
    [label |-> "update", description |-> "Update tunnel properties", baseArgs |-> <<"update">>,
     requiredArgs |-> <<"tunnel-id">>, optionalArg |-> "optional args"],
    [label |-> "delete", description |-> "Delete one tunnel", baseArgs |-> <<"delete">>,
     requiredArgs |-> <<"tunnel-id">>, optionalArg |-> "optional args"],
    [label |-> "delete-all", description |-> "Delete all tunnels", baseArgs |-> <<"delete-all">>,
     requiredArgs |-> <<>>, optionalArg |-> "optional args"],
    [label |-> "token", description |-> "Issue tunnel access token", baseArgs |-> <<"token">>,
     requiredArgs |-> <<"tunnel-id">>, optionalArg |-> "optional args"],
    [label |-> "set", description |-> "Set default tunnel", baseArgs |-> <<"set">>,
     requiredArgs |-> <<"tunnel-id">>, optionalArg |-> "optional args"],
    [label |-> "unset", description |-> "Clear default tunnel", baseArgs |-> <<"unset">>,
     requiredArgs |-> <<>>, optionalArg |-> "optional args"],
    [label |-> "access", description |-> "Manage tunnel access control entries", baseArgs |-> <<"access">>,
     requiredArgs |-> <<>>, optionalArg |-> "subcommand and args"],
    [label |-> "port", description |-> "Manage tunnel ports", baseArgs |-> <<"port">>,
     requiredArgs |-> <<>>, optionalArg |-> "subcommand and args"],
    [label |-> "host", description |-> "Host a tunnel", baseArgs |-> <<"host">>,
     requiredArgs |-> <<>>, optionalArg |-> "tunnel-id and args (blank = auto-create)"],
    [label |-> "connect", description |-> "Connect to tunnel", baseArgs |-> <<"connect">>,
     requiredArgs |-> <<"tunnel-id">>, optionalArg |-> "optional args"],
    [label |-> "limits", description |-> "List user limits", baseArgs |-> <<"limits">>,
     requiredArgs |-> <<>>, optionalArg |-> "optional args"],
    [label |-> "clusters", description |-> "List service clusters", baseArgs |-> <<"clusters">>,
     requiredArgs |-> <<>>, optionalArg |-> "optional args"],
    [label |-> "echo", description |-> "Run diagnostic echo server", baseArgs |-> <<"echo">>,
     requiredArgs |-> <<"protocol">>, optionalArg |-> "optional args"],
    [label |-> "ping", description |-> "Send messages to echo server", baseArgs |-> <<"ping">>,
     requiredArgs |-> <<"uri">>, optionalArg |-> "optional args"],
    [label |-> "custom", description |-> "Run any raw command after devtunnel", baseArgs |-> <<>>,
     requiredArgs |-> <<>>, optionalArg |-> ""]
  >>

initialModelFlat ==
  [devtunnelFound |-> FALSE, selected |-> 0,
   status |-> "checking devtunnel binary", running |-> FALSE,
   showHelp |-> FALSE, lastCommand |-> <<>>, lastCommandText |-> "",
   lastOutput |-> "", inPrompt |-> FALSE, promptIndex |-> 0,
   activeCommand |-> <<>>, promptInputs |-> <<>>, promptValues |-> <<>>,
   currentPrompt |-> "", customCmdInput |-> <<>>, viewport |-> "",
   width |-> 0, height |-> 0, ready |-> FALSE,
   viewportWidth |-> 0, viewportHeight |-> 0]

\* the labels of the prompt fields as they would be with the optional label
\* forgotten, lines 264-266 left out
promptFields_NoOptional(cmd) == cmd.requiredArgs

\* the labels of a command's prompt fields (lines 263-266)
promptFields(cmd) ==
  cmd.requiredArgs \o (IF cmd.optionalArg # "" THEN <<cmd.optionalArg>> ELSE <<>>)

\* startPrompt as it would be with the devtunnelFound test of lines 249-252
\* left out
startPrompt_NoGuard(mm, cmd) ==
  IF cmd.label = "custom"
  THEN [m |-> [mm EXCEPT !.inPrompt = TRUE, !.activeCommand = <<cmd>>,
                         !.currentPrompt = "Custom command (after devtunnel)",
                         !.customCmdInput = <<>>],
        cmd |-> UiCmd]
  ELSE LET fields == promptFields(cmd)
       IN IF Len(fields) = 0
          THEN LET parts == <<"devtunnel">> \o cmd.baseArgs
               IN [m |-> [mm EXCEPT !.lastCommand = parts],
                   cmd |-> runCommandCmd(parts)]
          ELSE [m |-> [mm EXCEPT !.promptInputs = [i \in 1..Len(fields) |-> <<>>],
                                 !.promptValues = [i \in 1..Len(fields) |-> <<>>],
                                 !.inPrompt = TRUE, !.promptIndex = 0,
                                 !.activeCommand = <<cmd>>,
                                 !.currentPrompt = fields[1]],
                cmd |-> UiCmd]

\* startPrompt: activeCommand is <<>> for nil, <<cmd>> for &cmd
startPrompt(mm, cmd) ==
  IF ~mm.devtunnelFound
  THEN [m |-> [mm EXCEPT !.status = "install devtunnel CLI first"], cmd |-> NilCmd]
  ELSE IF cmd.label = "custom"
  THEN [m |-> [mm EXCEPT !.inPrompt = TRUE, !.activeCommand = <<cmd>>,
                         !.currentPrompt = "Custom command (after devtunnel)",
                         !.customCmdInput = <<>>],
        cmd |-> UiCmd]
  ELSE LET fields == promptFields(cmd)
       IN IF Len(fields) = 0
          THEN LET parts == <<"devtunnel">> \o cmd.baseArgs
               IN [m |-> [mm EXCEPT !.lastCommand = parts],
                   cmd |-> runCommandCmd(parts)]
          ELSE [m |-> [mm EXCEPT !.promptInputs = [i \in 1..Len(fields) |-> <<>>],
                                 !.promptValues = [i \in 1..Len(fields) |-> <<>>],
                                 !.inPrompt = TRUE, !.promptIndex = 0,
                                 !.activeCommand = <<cmd>>,
                                 !.currentPrompt = fields[1]],
                cmd |-> UiCmd]

\* the prompt closed: inPrompt, activeCommand and currentPrompt reset
ClosePrompt(mm) ==
  [mm EXCEPT !.inPrompt = FALSE, !.activeCommand = <<>>, !.currentPrompt = ""]

\* the "custom" branch as it would be if Enter on a text that trims to
\* nothing reported it in the status line
handleCustomInput_Report(mm, k) ==
  IF k = "esc" THEN [m |-> ClosePrompt(mm), cmd |-> NilCmd]
  ELSE IF k = "enter"
  THEN LET raw == TrimSpace(mm.customCmdInput)
       IN IF raw = <<>>
          THEN [m |-> [ClosePrompt(mm) EXCEPT !.status = "empty command"], cmd |-> NilCmd]
          ELSE LET parts == <<"devtunnel">> \o StrEach(Fields(raw))
               IN [m |-> [ClosePrompt(mm) EXCEPT !.lastCommand = parts],
                   cmd |-> runCommandCmd(parts)]
  ELSE [m |-> [mm EXCEPT !.customCmdInput = TextInputUpdate(@, k)], cmd |-> UiCmd]

\* the "custom" branch as it would be if the tokens of the text were run as
\* they are, without devtunnel ahead of them (line 315)
handleCustomInput_NoPrefix(mm, k) ==
  IF k = "esc" THEN [m |-> ClosePrompt(mm), cmd |-> NilCmd]
  ELSE IF k = "enter"
  THEN LET raw == TrimSpace(mm.customCmdInput)
       IN IF raw = <<>>
          THEN [m |-> ClosePrompt(mm), cmd |-> NilCmd]
          ELSE LET parts == StrEach(Fields(raw))
               IN [m |-> [ClosePrompt(mm) EXCEPT !.lastCommand = parts],
                   cmd |-> runCommandCmd(parts)]
  ELSE [m |-> [mm EXCEPT !.customCmdInput = TextInputUpdate(@, k)], cmd |-> UiCmd]

\* handlePromptInput, the "custom" branch (lines 299-321)
handleCustomInput(mm, k) ==
  IF k = "esc" THEN [m |-> ClosePrompt(mm), cmd |-> NilCmd]
  ELSE IF k = "enter"
  THEN LET raw == TrimSpace(mm.customCmdInput)
       IN IF raw = <<>>
          THEN [m |-> ClosePrompt(mm), cmd |-> NilCmd]
          ELSE LET parts == <<"devtunnel">> \o StrEach(Fields(raw))
               IN [m |-> [ClosePrompt(mm) EXCEPT !.lastCommand = parts],
                   cmd |-> runCommandCmd(parts)]
  ELSE [m |-> [mm EXCEPT !.customCmdInput = TextInputUpdate(@, k)], cmd |-> UiCmd]

\* the loop over the required labels (main.go lines 340-350, part_000 lines
\* 453-463): each trimmed value is appended to args in turn; the first one
\* that trims to nothing ends the loop with its label
RECURSIVE requiredLoop(_, _, _, _)
requiredLoop(labels, values, i, args) ==
  IF i > Len(labels) THEN [missing |-> FALSE, label |-> "", args |-> args]
  ELSE LET v == TrimSpace(values[i])
       IN IF v = <<>>
          THEN [missing |-> TRUE, label |-> labels[i], args |-> args]
          ELSE requiredLoop(labels, values, i + 1, Append(args, Str(v)))

\* submitPrompt as it would be with the optional text appended as one
\* argument, strings.Fields of line 360 left out
submitPrompt_NoSplit(mm, values) ==
  LET ac == mm.activeCommand[1]
      req == requiredLoop(ac.requiredArgs, values, 1, ac.baseArgs)
      extra == IF ac.optionalArg # "" /\ Len(ac.requiredArgs) # Len(mm.promptInputs)
               THEN TrimSpace(values[Len(mm.promptInputs)]) ELSE <<>>
      parts == <<"devtunnel">> \o req.args
                 \o (IF extra = <<>> THEN <<>> ELSE <<Str(extra)>>)
  IN IF req.missing
     THEN [m |-> [ClosePrompt(mm) EXCEPT
                    !.promptValues = values,
                    !.status = "missing required argument: " \o req.label],
           cmd |-> NilCmd]
     ELSE [m |-> [ClosePrompt(mm) EXCEPT !.promptValues = values,
                                         !.lastCommand = parts],
           cmd |-> runCommandCmd(parts)]

\* handlePromptInput, Enter on the final field (lines 339-369); values are
\* the promptValues after line 330
submitPrompt(mm, values) ==
  LET ac == mm.activeCommand[1]
      req == requiredLoop(ac.requiredArgs, values, 1, ac.baseArgs)
      optIndex == IF Len(ac.requiredArgs) = Len(mm.promptInputs) THEN -1
                  ELSE Len(mm.promptInputs) - 1
      extra == IF ac.optionalArg # "" /\ optIndex >= 0
               THEN TrimSpace(values[optIndex + 1]) ELSE <<>>
      args == req.args \o StrEach(Fields(extra))
      parts == <<"devtunnel">> \o args
  IN IF req.missing
     THEN [m |-> [ClosePrompt(mm) EXCEPT
                    !.promptValues = values,
                    !.status = "missing required argument: " \o req.label],
           cmd |-> NilCmd]
     ELSE [m |-> [ClosePrompt(mm) EXCEPT !.promptValues = values,
                                         !.lastCommand = parts],
           cmd |-> runCommandCmd(parts)]

handlePromptInput(mm, k) ==
  IF mm.activeCommand = <<>>
  THEN [m |-> [mm EXCEPT !.inPrompt = FALSE], cmd |-> NilCmd]
  ELSE IF mm.activeCommand[1].label = "custom" THEN handleCustomInput(mm, k)
  ELSE IF k = "esc" THEN [m |-> ClosePrompt(mm), cmd |-> NilCmd]
  ELSE IF k = "enter"
  THEN LET i == mm.promptIndex + 1
           values == [mm.promptValues EXCEPT ![i] = TrimSpace(mm.promptInputs[i])]
       IN IF mm.promptIndex < Len(mm.promptInputs) - 1
          THEN [m |-> [mm EXCEPT !.promptValues = values,
                                 !.promptIndex = @ + 1,
                                 !.currentPrompt =
                                    promptFields(mm.activeCommand[1])[i + 1]],
                cmd |-> NilCmd]
          ELSE submitPrompt(mm, values)
  ELSE [m |-> [mm EXCEPT !.promptInputs[mm.promptIndex + 1] = TextInputUpdate(@, k)],
        cmd |-> UiCmd]

\* Update on a key message as it would be if r forgot the vector it has
\* dispatched
FlatUpdateKey_RerunOnce(mm, k) ==
  IF mm.running
  THEN IF k \in {"ctrl+c", "q"} THEN [m |-> mm, cmd |-> QuitCmd]
       ELSE [m |-> mm, cmd |-> UiCmd]
  ELSE IF mm.inPrompt THEN handlePromptInput(mm, k)
  ELSE IF k \in {"ctrl+c", "q"} THEN [m |-> mm, cmd |-> QuitCmd]
  ELSE IF k = "?" THEN [m |-> [mm EXCEPT !.showHelp = ~@], cmd |-> UiCmd]
  ELSE IF k \in {"up", "k"}
  THEN [m |-> IF mm.selected > 0 THEN [mm EXCEPT !.selected = @ - 1] ELSE mm,
        cmd |-> UiCmd]
  ELSE IF k \in {"down", "j"}
  THEN [m |-> IF mm.selected < Len(defaultCommands) - 1
               THEN [mm EXCEPT !.selected = @ + 1] ELSE mm,
        cmd |-> UiCmd]
  ELSE IF k = "r"
  THEN IF Len(mm.lastCommand) > 0
       THEN [m |-> [mm EXCEPT !.lastCommand = <<>>], cmd |-> runCommandCmd(mm.lastCommand)]
       ELSE [m |-> mm, cmd |-> UiCmd]
  ELSE IF k = "enter" THEN startPrompt(mm, defaultCommands[mm.selected + 1])
  ELSE [m |-> mm, cmd |-> UiCmd]

\* Update on a key message as it would be if the help key were served
\* while a command runs
FlatUpdateKey_HelpWhileRunning(mm, k) ==
  IF mm.running
  THEN IF k \in {"ctrl+c", "q"} THEN [m |-> mm, cmd |-> QuitCmd]
       ELSE IF k = "?" THEN [m |-> [mm EXCEPT !.showHelp = ~@], cmd |-> UiCmd]
       ELSE [m |-> mm, cmd |-> UiCmd]
  ELSE IF mm.inPrompt THEN handlePromptInput(mm, k)
  ELSE IF k \in {"ctrl+c", "q"} THEN [m |-> mm, cmd |-> QuitCmd]
  ELSE IF k = "?" THEN [m |-> [mm EXCEPT !.showHelp = ~@], cmd |-> UiCmd]
  ELSE IF k \in {"up", "k"}
  THEN [m |-> IF mm.selected > 0 THEN [mm EXCEPT !.selected = @ - 1] ELSE mm,
        cmd |-> UiCmd]
  ELSE IF k \in {"down", "j"}
  THEN [m |-> IF mm.selected < Len(defaultCommands) - 1
               THEN [mm EXCEPT !.selected = @ + 1] ELSE mm,
        cmd |-> UiCmd]
  ELSE IF k = "r"
  THEN IF Len(mm.lastCommand) > 0
       THEN [m |-> mm, cmd |-> runCommandCmd(mm.lastCommand)]
       ELSE [m |-> mm, cmd |-> UiCmd]
  ELSE IF k = "enter" THEN startPrompt(mm, defaultCommands[mm.selected + 1])
  ELSE [m |-> mm, cmd |-> UiCmd]

\* Update on a key message (lines 171-204, 243-245)
FlatUpdateKey(mm, k) ==
  IF mm.running
  THEN IF k \in {"ctrl+c", "q"} THEN [m |-> mm, cmd |-> QuitCmd]
       ELSE [m |-> mm, cmd |-> UiCmd]
  ELSE IF mm.inPrompt THEN handlePromptInput(mm, k)
  ELSE IF k \in {"ctrl+c", "q"} THEN [m |-> mm, cmd |-> QuitCmd]
  ELSE IF k = "?" THEN [m |-> [mm EXCEPT !.showHelp = ~@], cmd |-> UiCmd]
  ELSE IF k \in {"up", "k"}
  THEN [m |-> IF mm.selected > 0 THEN [mm EXCEPT !.selected = @ - 1] ELSE mm,
        cmd |-> UiCmd]
  ELSE IF k \in {"down", "j"}
  THEN [m |-> IF mm.selected < Len(defaultCommands) - 1
               THEN [mm EXCEPT !.selected = @ + 1] ELSE mm,
        cmd |-> UiCmd]
  ELSE IF k = "r"
  THEN IF Len(mm.lastCommand) > 0
       THEN [m |-> mm, cmd |-> runCommandCmd(mm.lastCommand)]
       ELSE [m |-> mm, cmd |-> UiCmd]
  ELSE IF k = "enter" THEN startPrompt(mm, defaultCommands[mm.selected + 1])
  ELSE [m |-> mm, cmd |-> UiCmd]

\* Update on runStartedMsg (lines 206-211)
FlatUpdateStarted(mm, msg) ==
  [m |-> [mm EXCEPT !.running = TRUE,
                    !.status = "running: " \o msg.cmdText,
                    !.lastCommandText = msg.cmdText,
                    !.viewport = "Running command...\n\n" \o msg.cmdText],
   cmd |-> UiCmd]

\* Update on runResultMsg as it would be without the test for the probe's
\* command text of line 214
FlatUpdateResult_NoSentinel(mm, msg) ==
  [m |-> [mm EXCEPT !.running = FALSE,
                    !.status = IF msg.err # "nil" THEN "command failed"
                               ELSE "command completed",
                    !.lastOutput = msg.output,
                    !.viewport = "$ " \o msg.cmdText \o "\n\n" \o msg.output],
   cmd |-> NilCmd]

\* Update on runResultMsg (lines 213-233)
FlatUpdateResult(mm, msg) ==
  IF msg.cmdText = ProbeText
  THEN [m |-> IF msg.err # "nil"
               THEN [mm EXCEPT !.devtunnelFound = FALSE,
                               !.status = "devtunnel not found in PATH"]
               ELSE [mm EXCEPT !.devtunnelFound = TRUE, !.status = "ready"],
        cmd |-> NilCmd]
  ELSE [m |-> [mm EXCEPT !.running = FALSE,
                         !.status = IF msg.err # "nil" THEN "command failed"
                                    ELSE "command completed",
                         !.lastOutput = msg.output,
                         !.viewport = "$ " \o msg.cmdText \o "\n\n" \o msg.output],
        cmd |-> NilCmd]

\* Update on tea.WindowSizeMsg (lines 159-169, 243-245): the first one makes
\* the viewport, the later ones resize it
FlatUpdateSize(mm, msg) ==
  [m |-> IF ~mm.ready
         THEN [mm EXCEPT !.width = msg.width, !.height = msg.height,
                         !.viewportWidth = msg.width - 4,
                         !.viewportHeight = max(8, msg.height - 14),
                         !.viewport = "Waiting for command output...",
                         !.ready = TRUE]
         ELSE [mm EXCEPT !.width = msg.width, !.height = msg.height,
                         !.viewportWidth = msg.width - 4,
                         !.viewportHeight = max(8, msg.height - 14)],
   cmd |-> UiCmd]

\* the width View gives the box around the output (line 467)
boxWidth(mm) == mm.width - 2

\* model.Update of main.go
FlatUpdate(mm, msg) ==
  CASE msg.type = "KeyMsg" -> FlatUpdateKey(mm, msg.key)
    [] msg.type = "runStartedMsg" -> FlatUpdateStarted(mm, msg)
    [] msg.type = "runFinishedMsg" -> FlatUpdateResult(mm, msg)
    [] msg.type = "WindowSizeMsg" -> FlatUpdateSize(mm, msg)

-----------------------------------------------------------------------------
(* the categorized variant: src/unnamed/part_000                           *)

catalog ==
  <<
    [name |-> "Tunnels", commands |-> <<
      [name |-> "list", description |-> "List tunnels", baseArgs |-> <<"list">>,
       required |-> <<>>, optional |-> "flags"],
      [name |-> "show", description |-> "Show tunnel details", baseArgs |-> <<"show">>,
       required |-> <<"tunnel-id">>, optional |-> ""],
      [name |-> "create", description |-> "Create a tunnel", baseArgs |-> <<"create">>,
       required |-> <<"tunnel-id">>, optional |-> "flags"],
      [name |-> "update", description |-> "Update tunnel properties", baseArgs |-> <<"update">>,
       required |-> <<"tunnel-id">>, optional |-> "flags"],
      [name |-> "delete", description |-> "Delete a tunnel", baseArgs |-> <<"delete">>,
       required |-> <<"tunnel-id">>, optional |-> ""],
      [name |-> "delete-all", description |-> "Delete all tunnels", baseArgs |-> <<"delete-all">>,
       required |-> <<>>, optional |-> ""],
      [name |-> "set", description |-> "Set default tunnel", baseArgs |-> <<"set">>,
       required |-> <<"tunnel-id">>, optional |-> ""],
      [name |-> "unset", description |-> "Clear default tunnel", baseArgs |-> <<"unset">>,
       required |-> <<>>, optional |-> ""],
      [name |-> "token", description |-> "Issue tunnel access token", baseArgs |-> <<"token">>,
       required |-> <<"tunnel-id">>, optional |-> "flags"] >>],
    [name |-> "Ports & Access", commands |-> <<
      [name |-> "port", description |-> "Manage tunnel ports", baseArgs |-> <<"port">>,
       required |-> <<>>, optional |-> "subcommand and args"],
      [name |-> "access", description |-> "Manage access control", baseArgs |-> <<"access">>,
       required |-> <<>>, optional |-> "subcommand and args"] >>],
    [name |-> "Connections", commands |-> <<
      [name |-> "host", description |-> "Host a tunnel", baseArgs |-> <<"host">>,
       required |-> <<>>, optional |-> "tunnel-id and flags"],
      [name |-> "connect", description |-> "Connect to tunnel", baseArgs |-> <<"connect">>,
       required |-> <<"tunnel-id">>, optional |-> "flags"] >>],
    [name |-> "User", commands |-> <<
      [name |-> "user login", description |-> "Authenticate user credentials", baseArgs |-> <<"user", "login">>,
       required |-> <<>>, optional |-> ""],
      [name |-> "user logout", description |-> "Remove local credentials", baseArgs |-> <<"user", "logout">>,
       required |-> <<>>, optional |-> ""],
      [name |-> "user", description |-> "Run user subcommand", baseArgs |-> <<"user">>,
       required |-> <<>>, optional |-> "subcommand and args"] >>],
    [name |-> "Diagnostics", commands |-> <<
      [name |-> "limits", description |-> "List user limits", baseArgs |-> <<"limits">>,
       required |-> <<>>, optional |-> ""],
      [name |-> "clusters", description |-> "List clusters", baseArgs |-> <<"clusters">>,
       required |-> <<>>, optional |-> ""],
      [name |-> "echo", description |-> "Run echo server", baseArgs |-> <<"echo">>,
       required |-> <<"protocol">>, optional |-> ""],
      [name |-> "ping", description |-> "Ping remote echo server", baseArgs |-> <<"ping">>,
       required |-> <<"uri">>, optional |-> ""] >>],
    [name |-> "Custom", commands |-> <<
      [name |-> ": command mode", description |-> "Type any raw devtunnel command", baseArgs |-> <<>>,
       required |-> <<>>, optional |-> ""] >>]
  >>
Runes(s) ==
  CASE s = "list" -> <<"l","i","s","t">>
    [] s = "List tunnels" -> <<"L","i","s","t"," ","t","u","n","n","e","l","s">>
    [] s = "show" -> <<"s","h","o","w">>
    [] s = "Show tunnel details" -> <<"S","h","o","w"," ","t","u","n","n","e","l"," ","d","e","t","a","i","l","s">>
    [] s = "create" -> <<"c","r","e","a","t","e">>
    [] s = "Create a tunnel" -> <<"C","r","e","a","t","e"," ","a"," ","t","u","n","n","e","l">>
    [] s = "update" -> <<"u","p","d","a","t","e">>
    [] s = "Update tunnel properties" -> <<"U","p","d","a","t","e"," ","t","u","n","n","e","l"," ","p","r","o","p","e","r","t","i","e","s">>
    [] s = "delete" -> <<"d","e","l","e","t","e">>
    [] s = "Delete a tunnel" -> <<"D","e","l","e","t","e"," ","a"," ","t","u","n","n","e","l">>
    [] s = "delete-all" -> <<"d","e","l","e","t","e","-","a","l","l">>
    [] s = "Delete all tunnels" -> <<"D","e","l","e","t","e"," ","a","l","l"," ","t","u","n","n","e","l","s">>
    [] s = "set" -> <<"s","e","t">>
    [] s = "Set default tunnel" -> <<"S","e","t"," ","d","e","f","a","u","l","t"," ","t","u","n","n","e","l">>
    [] s = "unset" -> <<"u","n","s","e","t">>
    [] s = "Clear default tunnel" -> <<"C","l","e","a","r"," ","d","e","f","a","u","l","t"," ","t","u","n","n","e","l">>
    [] s = "token" -> <<"t","o","k","e","n">>
    [] s = "Issue tunnel access token" -> <<"I","s","s","u","e"," ","t","u","n","n","e","l"," ","a","c","c","e","s","s"," ","t","o","k","e","n">>
    [] s = "port" -> <<"p","o","r","t">>
    [] s = "Manage tunnel ports" -> <<"M","a","n","a","g","e"," ","t","u","n","n","e","l"," ","p","o","r","t","s">>
    [] s = "access" -> <<"a","c","c","e","s","s">>
    [] s = "Manage access control" -> <<"M","a","n","a","g","e"," ","a","c","c","e","s","s"," ","c","o","n","t","r","o","l">>
    [] s = "host" -> <<"h","o","s","t">>
    [] s = "Host a tunnel" -> <<"H","o","s","t"," ","a"," ","t","u","n","n","e","l">>
    [] s = "connect" -> <<"c","o","n","n","e","c","t">>
    [] s = "Connect to tunnel" -> <<"C","o","n","n","e","c","t"," ","t","o"," ","t","u","n","n","e","l">>
    [] s = "user login" -> <<"u","s","e","r"," ","l","o","g","i","n">>
    [] s = "Authenticate user credentials" -> <<"A","u","t","h","e","n","t","i","c","a","t","e"," ","u","s","e","r"," ","c","r","e","d","e","n","t","i","a","l","s">>
    [] s = "user" -> <<"u","s","e","r">>
    [] s = "login" -> <<"l","o","g","i","n">>
    [] s = "user logout" -> <<"u","s","e","r"," ","l","o","g","o","u","t">>
    [] s = "Remove local credentials" -> <<"R","e","m","o","v","e"," ","l","o","c","a","l"," ","c","r","e","d","e","n","t","i","a","l","s">>
    [] s = "logout" -> <<"l","o","g","o","u","t">>
    [] s = "Run user subcommand" -> <<"R","u","n"," ","u","s","e","r"," ","s","u","b","c","o","m","m","a","n","d">>
    [] s = "limits" -> <<"l","i","m","i","t","s">>
    [] s = "List user limits" -> <<"L","i","s","t"," ","u","s","e","r"," ","l","i","m","i","t","s">>
    [] s = "clusters" -> <<"c","l","u","s","t","e","r","s">>
    [] s = "List clusters" -> <<"L","i","s","t"," ","c","l","u","s","t","e","r","s">>
    [] s = "echo" -> <<"e","c","h","o">>
    [] s = "Run echo server" -> <<"R","u","n"," ","e","c","h","o"," ","s","e","r","v","e","r">>
    [] s = "ping" -> <<"p","i","n","g">>
    [] s = "Ping remote echo server" -> <<"P","i","n","g"," ","r","e","m","o","t","e"," ","e","c","h","o"," ","s","e","r","v","e","r">>
    [] s = ": command mode" -> <<":"," ","c","o","m","m","a","n","d"," ","m","o","d","e">>
    [] s = "Type any raw devtunnel command" -> <<"T","y","p","e"," ","a","n","y"," ","r","a","w"," ","d","e","v","t","u","n","n","e","l"," ","c","o","m","m","a","n","d">>

UpperCase == <<"A","B","C","D","E","F","G","H","I","J","K","L","M",
               "N","O","P","Q","R","S","T","U","V","W","X","Y","Z">>

LowerCase == <<"a","b","c","d","e","f","g","h","i","j","k","l","m",
               "n","o","p","q","r","s","t","u","v","w","x","y","z">>

\* strings.ToLower
ToLower(s) ==
  [i \in 1..Len(s) |->
     IF \E j \in 1..26 : UpperCase[j] = s[i]
     THEN LowerCase[CHOOSE j \in 1..26 : UpperCase[j] = s[i]]
     ELSE s[i]]

\* strings.Contains
Contains(hay, sub) ==
  \E i \in 0..(Len(hay) - Len(sub)) : SubSeq(hay, i + 1, i + Len(sub)) = sub

\* the characters of strings.Join(args, " ")
RECURSIVE JoinRunes(_)
JoinRunes(args) ==
  IF args = <<>> THEN <<>>
  ELSE IF Len(args) = 1 THEN Runes(args[1])
  ELSE Runes(args[1]) \o <<" ">> \o JoinRunes(Tail(args))

initialModelCat ==
  [devtunnelFound |-> FALSE, running |-> FALSE,
   statusText |-> "checking devtunnel binary", statusErr |-> FALSE,
   catIdx |-> 0, cmdIdx |-> 0, focusPane |-> 1, viewport |-> "",
   filterMode |-> FALSE, filterInput |-> <<>>,
   cmdMode |-> FALSE, cmdInput |-> <<>>,
   formMode |-> FALSE, formTitle |-> "", formCmd |-> <<>>,
   formLabels |-> <<>>, formInputs |-> <<>>, formIndex |-> 0,
   lastCmd |-> <<>>, lastOutput |-> "",
   width |-> 0, height |-> 0, ready |-> FALSE,
   viewportWidth |-> 0, viewportHeight |-> 0]

\* visibleCommands as it would be with the filter text compared as typed,
\* strings.ToLower of line 361 left out
visibleCommands_CaseSensitive(mm) ==
  IF mm.catIdx < 0 \/ mm.catIdx >= Len(catalog) THEN <<>>
  ELSE LET items == catalog[mm.catIdx + 1].commands
           flt == TrimSpace(mm.filterInput)
           matches(item) ==
             Contains(ToLower(Runes(item.name) \o <<" ">> \o Runes(item.description)
                              \o <<" ">> \o JoinRunes(item.baseArgs)), flt)
       IN IF flt = <<>> THEN items ELSE SelectSeq(items, matches)

visibleCommands(mm) ==
  IF mm.catIdx < 0 \/ mm.catIdx >= Len(catalog) THEN <<>>
  ELSE LET items == catalog[mm.catIdx + 1].commands
           flt == TrimSpace(ToLower(mm.filterInput))
           matches(item) ==
             Contains(ToLower(Runes(item.name) \o <<" ">> \o Runes(item.description)
                              \o <<" ">> \o JoinRunes(item.baseArgs)), flt)
       IN IF flt = <<>> THEN items ELSE SelectSeq(items, matches)

\* moveUp has a value receiver: this is the copy it changes, which its
\* caller never sees
moveUp(mm) == IF mm.cmdIdx > 0 THEN [mm EXCEPT !.cmdIdx = @ - 1] ELSE mm

\* moveDown has a value receiver too
moveDown(mm) ==
  IF mm.cmdIdx < Len(visibleCommands(mm)) - 1 THEN [mm EXCEPT !.cmdIdx = @ + 1] ELSE mm

\* the form cleared as it would be with the mode flag left set, line 431
\* left out
ClearForm_KeepMode(mm) ==
  [mm EXCEPT !.formCmd = <<>>, !.formInputs = <<>>,
             !.formLabels = <<>>, !.formTitle = "", !.formIndex = 0]

\* the form closed and cleared (lines 431-436, 475-480)
ClearForm(mm) ==
  [mm EXCEPT !.formMode = FALSE, !.formCmd = <<>>, !.formInputs = <<>>,
             !.formLabels = <<>>, !.formTitle = "", !.formIndex = 0]

runSelected(mm) ==
  IF ~mm.devtunnelFound
  THEN [m |-> [mm EXCEPT !.statusErr = TRUE,
                         !.statusText = "install devtunnel CLI first"],
        cmd |-> NilCmd]
  ELSE LET cmds == visibleCommands(mm)
       IN IF Len(cmds) = 0 THEN [m |-> mm, cmd |-> NilCmd]
          ELSE LET m1 == IF mm.cmdIdx >= Len(cmds)
                         THEN [mm EXCEPT !.cmdIdx = Len(cmds) - 1] ELSE mm
                   cmd == cmds[m1.cmdIdx + 1]
                   labels == cmd.required \o
                             (IF cmd.optional # "" THEN <<cmd.optional>> ELSE <<>>)
               IN IF cmd.name = ": command mode"
                  THEN [m |-> [m1 EXCEPT !.cmdMode = TRUE, !.cmdInput = <<>>],
                        cmd |-> UiCmd]
                  ELSE IF Len(labels) = 0
                  THEN LET parts == <<"devtunnel">> \o cmd.baseArgs
                       IN [m |-> [m1 EXCEPT !.lastCmd = parts],
                           cmd |-> runCommandCmd(parts)]
                  ELSE [m |-> [m1 EXCEPT !.formMode = TRUE, !.formCmd = <<cmd>>,
                                         !.formTitle = cmd.name,
                                         !.formLabels = labels,
                                         !.formInputs = [i \in 1..Len(labels) |-> <<>>],
                                         !.formIndex = 0],
                        cmd |-> UiCmd]

\* submitForm as it would be with lastCmd recorded before the required
\* values are looked at
submitForm_RecordFirst(mm) ==
  LET fc == mm.formCmd[1]
      req == requiredLoop(fc.required, mm.formInputs, 1, <<"devtunnel">> \o fc.baseArgs)
      extra == IF fc.optional # "" /\ Len(mm.formInputs) >= 1
               THEN TrimSpace(mm.formInputs[Len(mm.formInputs)]) ELSE <<>>
      parts == req.args \o StrEach(Fields(extra))
  IN IF req.missing
     THEN [m |-> [mm EXCEPT !.statusErr = TRUE,
                            !.statusText = "missing required: " \o req.label,
                            !.formMode = FALSE, !.formCmd = <<>>,
                            !.lastCmd = parts],
           cmd |-> NilCmd]
     ELSE [m |-> [ClearForm(mm) EXCEPT !.lastCmd = parts],
           cmd |-> runCommandCmd(parts)]

\* updateForm, Enter on the final field with a bound command (lines 451-482)
submitForm(mm) ==
  LET fc == mm.formCmd[1]
      req == requiredLoop(fc.required, mm.formInputs, 1, <<"devtunnel">> \o fc.baseArgs)
      i == Len(mm.formInputs) - 1
      extra == IF fc.optional # "" /\ i >= 0
               THEN TrimSpace(mm.formInputs[i + 1]) ELSE <<>>
      parts == req.args \o StrEach(Fields(extra))
  IN IF req.missing
     THEN [m |-> [mm EXCEPT !.statusErr = TRUE,
                            !.statusText = "missing required: " \o req.label,
                            !.formMode = FALSE, !.formCmd = <<>>],
           cmd |-> NilCmd]
     ELSE [m |-> [ClearForm(mm) EXCEPT !.lastCmd = parts],
           cmd |-> runCommandCmd(parts)]

\* updateForm as it would be if Enter validated the field it leaves
updateForm_ValidateEach(mm, k) ==
  IF k = "esc" THEN [m |-> ClearForm(mm), cmd |-> NilCmd]
  ELSE IF k = "enter"
  THEN IF mm.formIndex < Len(mm.formInputs) - 1
       THEN IF TrimSpace(mm.formInputs[mm.formIndex + 1]) = <<>>
            THEN [m |-> [mm EXCEPT !.statusErr = TRUE,
                                   !.statusText = "missing argument"],
                  cmd |-> NilCmd]
            ELSE [m |-> [mm EXCEPT !.formIndex = @ + 1], cmd |-> NilCmd]
       ELSE IF mm.formCmd = <<>>
       THEN [m |-> [mm EXCEPT !.formMode = FALSE], cmd |-> NilCmd]
       ELSE submitForm(mm)
  ELSE [m |-> [mm EXCEPT !.formInputs[mm.formIndex + 1] = TextInputUpdate(@, k)],
        cmd |-> UiCmd]

updateForm(mm, k) ==
  IF k = "esc" THEN [m |-> ClearForm(mm), cmd |-> NilCmd]
  ELSE IF k = "enter"
  THEN IF mm.formIndex < Len(mm.formInputs) - 1
       THEN [m |-> [mm EXCEPT !.formIndex = @ + 1], cmd |-> NilCmd]
       ELSE IF mm.formCmd = <<>>
       THEN [m |-> [mm EXCEPT !.formMode = FALSE], cmd |-> NilCmd]
       ELSE submitForm(mm)
  ELSE [m |-> [mm EXCEPT !.formInputs[mm.formIndex + 1] = TextInputUpdate(@, k)],
        cmd |-> UiCmd]

\* updateCmdMode as it would be with the trimmed text passed on as one
\* argument, strings.Fields of line 503 left out
updateCmdMode_NoSplit(mm, k) ==
  IF k = "esc" THEN [m |-> [mm EXCEPT !.cmdMode = FALSE], cmd |-> NilCmd]
  ELSE IF k = "enter"
  THEN IF TrimSpace(mm.cmdInput) = <<>>
       THEN [m |-> [mm EXCEPT !.cmdMode = FALSE], cmd |-> NilCmd]
       ELSE [m |-> [mm EXCEPT !.cmdMode = FALSE,
                              !.lastCmd = <<"devtunnel", Str(TrimSpace(mm.cmdInput))>>],
             cmd |-> runCommandCmd(<<"devtunnel", Str(TrimSpace(mm.cmdInput))>>)]
  ELSE [m |-> [mm EXCEPT !.cmdInput = TextInputUpdate(@, k)], cmd |-> UiCmd]

updateCmdMode(mm, k) ==
  IF k = "esc" THEN [m |-> [mm EXCEPT !.cmdMode = FALSE], cmd |-> NilCmd]
  ELSE IF k = "enter"
  THEN LET raw == TrimSpace(mm.cmdInput)
       IN IF raw = <<>>
          THEN [m |-> [mm EXCEPT !.cmdMode = FALSE], cmd |-> NilCmd]
          ELSE LET parts == <<"devtunnel">> \o StrEach(Fields(raw))
               IN [m |-> [mm EXCEPT !.cmdMode = FALSE, !.lastCmd = parts],
                   cmd |-> runCommandCmd(parts)]
  ELSE [m |-> [mm EXCEPT !.cmdInput = TextInputUpdate(@, k)], cmd |-> UiCmd]

\* updateFilterMode as it would be if an edit of the filter text left the
\* cursor where it was, line 526 left out
updateFilterMode_KeepCursor(mm, k) ==
  IF k = "esc" THEN [m |-> [mm EXCEPT !.filterMode = FALSE], cmd |-> NilCmd]
  ELSE IF k = "enter"
  THEN [m |-> [mm EXCEPT !.filterMode = FALSE, !.cmdIdx = 0], cmd |-> NilCmd]
  ELSE [m |-> [mm EXCEPT !.filterInput = TextInputUpdate(@, k)],
        cmd |-> UiCmd]

updateFilterMode(mm, k) ==
  IF k = "esc" THEN [m |-> [mm EXCEPT !.filterMode = FALSE], cmd |-> NilCmd]
  ELSE IF k = "enter"
  THEN [m |-> [mm EXCEPT !.filterMode = FALSE, !.cmdIdx = 0], cmd |-> NilCmd]
  ELSE [m |-> [mm EXCEPT !.filterInput = TextInputUpdate(@, k), !.cmdIdx = 0],
        cmd |-> UiCmd]

\* the digit of a key as it would be without the subtraction of line 317
DigitIndex_OneBased(k) ==
  CASE k = "1" -> 1 [] k = "2" -> 2 [] k = "3" -> 3
    [] k = "4" -> 4 [] k = "5" -> 5 [] k = "6" -> 6

\* the digit of a key "1".."6", less one (line 317)
DigitIndex(k) ==
  CASE k = "1" -> 0 [] k = "2" -> 1 [] k = "3" -> 2
    [] k = "4" -> 3 [] k = "5" -> 4 [] k = "6" -> 5

\* Update on a key message as it would be if Right moved the category cursor
\* and left the command cursor alone, line 293 left out
CatUpdateKey_RightKeepsCursor(mm, k) ==
  IF mm.formMode THEN updateForm(mm, k)
  ELSE IF mm.cmdMode THEN updateCmdMode(mm, k)
  ELSE IF mm.filterMode THEN updateFilterMode(mm, k)
  ELSE IF k \in {"ctrl+c", "q"} THEN [m |-> mm, cmd |-> QuitCmd]
  ELSE IF k \in {"left", "h"}
  THEN [m |-> IF mm.catIdx > 0 THEN [mm EXCEPT !.catIdx = @ - 1, !.cmdIdx = 0]
               ELSE mm,
        cmd |-> NilCmd]
  ELSE IF k \in {"right", "l"}
  THEN [m |-> IF mm.catIdx < Len(catalog) - 1
               THEN [mm EXCEPT !.catIdx = @ + 1] ELSE mm,
        cmd |-> NilCmd]
  ELSE IF k = ":"
  THEN [m |-> [mm EXCEPT !.cmdMode = TRUE, !.cmdInput = <<>>], cmd |-> UiCmd]
  ELSE IF k = "/"
  THEN [m |-> [mm EXCEPT !.filterMode = TRUE, !.focusPane = 1], cmd |-> UiCmd]
  ELSE IF k = "r"
  THEN IF Len(mm.lastCmd) > 0
       THEN [m |-> mm, cmd |-> runCommandCmd(mm.lastCmd)]
       ELSE [m |-> mm, cmd |-> NilCmd]
  ELSE IF k = "g" THEN [m |-> [mm EXCEPT !.cmdIdx = 0], cmd |-> NilCmd]
  ELSE IF k = "G"
  THEN LET cmds == visibleCommands(mm)
       IN [m |-> IF Len(cmds) > 0 THEN [mm EXCEPT !.cmdIdx = Len(cmds) - 1] ELSE mm,
           cmd |-> NilCmd]
  ELSE IF k \in {"1", "2", "3", "4", "5", "6"}
  THEN LET i == DigitIndex(k)
       IN [m |-> IF i >= 0 /\ i < Len(catalog)
                  THEN [mm EXCEPT !.catIdx = i, !.cmdIdx = 0, !.focusPane = 1]
                  ELSE mm,
           cmd |-> NilCmd]
  ELSE IF k \in {"up", "k"}
  THEN LET copy == moveUp(mm) IN [m |-> mm, cmd |-> NilCmd]
  ELSE IF k \in {"down", "j"}
  THEN LET copy == moveDown(mm) IN [m |-> mm, cmd |-> NilCmd]
  ELSE IF k = "enter" THEN runSelected(mm)
  ELSE [m |-> mm, cmd |-> NilCmd]

\* Update on a key message (lines 271-340).  m.moveUp() and m.moveDown() run
\* on a copy of m, so Update's own m stays as it was; the viewport's scroll
\* offset (pgup, pgdown, u, d) is not part of the model
CatUpdateKey(mm, k) ==
  IF mm.formMode THEN updateForm(mm, k)
  ELSE IF mm.cmdMode THEN updateCmdMode(mm, k)
  ELSE IF mm.filterMode THEN updateFilterMode(mm, k)
  ELSE IF k \in {"ctrl+c", "q"} THEN [m |-> mm, cmd |-> QuitCmd]
  ELSE IF k \in {"left", "h"}
  THEN [m |-> IF mm.catIdx > 0 THEN [mm EXCEPT !.catIdx = @ - 1, !.cmdIdx = 0]
               ELSE mm,
        cmd |-> NilCmd]
  ELSE IF k \in {"right", "l"}
  THEN [m |-> IF mm.catIdx < Len(catalog) - 1
               THEN [mm EXCEPT !.catIdx = @ + 1, !.cmdIdx = 0] ELSE mm,
        cmd |-> NilCmd]
  ELSE IF k = ":"
  THEN [m |-> [mm EXCEPT !.cmdMode = TRUE, !.cmdInput = <<>>], cmd |-> UiCmd]
  ELSE IF k = "/"
  THEN [m |-> [mm EXCEPT !.filterMode = TRUE, !.focusPane = 1], cmd |-> UiCmd]
  ELSE IF k = "r"
  THEN IF Len(mm.lastCmd) > 0
       THEN [m |-> mm, cmd |-> runCommandCmd(mm.lastCmd)]
       ELSE [m |-> mm, cmd |-> NilCmd]
  ELSE IF k = "g" THEN [m |-> [mm EXCEPT !.cmdIdx = 0], cmd |-> NilCmd]
  ELSE IF k = "G"
  THEN LET cmds == visibleCommands(mm)
       IN [m |-> IF Len(cmds) > 0 THEN [mm EXCEPT !.cmdIdx = Len(cmds) - 1] ELSE mm,
           cmd |-> NilCmd]
  ELSE IF k \in {"1", "2", "3", "4", "5", "6"}
  THEN LET i == DigitIndex(k)
       IN [m |-> IF i >= 0 /\ i < Len(catalog)
                  THEN [mm EXCEPT !.catIdx = i, !.cmdIdx = 0, !.focusPane = 1]
                  ELSE mm,
           cmd |-> NilCmd]
  ELSE IF k \in {"up", "k"}
  THEN LET copy == moveUp(mm) IN [m |-> mm, cmd |-> NilCmd]
  ELSE IF k \in {"down", "j"}
  THEN LET copy == moveDown(mm) IN [m |-> mm, cmd |-> NilCmd]
  ELSE IF k = "enter" THEN runSelected(mm)
  ELSE [m |-> mm, cmd |-> NilCmd]

\* Update on runStartedMsg (lines 236-242)
CatUpdateStarted(mm, msg) ==
  [m |-> [mm EXCEPT !.running = TRUE, !.statusErr = FALSE,
                    !.statusText = "running " \o msg.cmdText,
                    !.viewport = "$ " \o msg.cmdText \o "\n\nRunning..."],
   cmd |-> UiCmd]

\* Update on runFinishedMsg as it would be if only a success ended the busy
\* state
CatUpdateFinished_StayBusy(mm, msg) ==
  IF msg.cmdText = ProbeText
  THEN [m |-> IF msg.err # "nil"
               THEN [mm EXCEPT !.devtunnelFound = FALSE, !.statusErr = TRUE,
                               !.statusText = "devtunnel not found in PATH"]
               ELSE [mm EXCEPT !.devtunnelFound = TRUE, !.statusErr = FALSE,
                               !.statusText = "ready"],
        cmd |-> NilCmd]
  ELSE [m |-> [mm EXCEPT !.running = (msg.err # "nil"),
                         !.lastOutput = msg.output,
                         !.statusErr = (msg.err # "nil"),
                         !.statusText = IF msg.err # "nil" THEN "command failed"
                                        ELSE "command completed",
                         !.viewport = "$ " \o msg.cmdText \o "\n\n" \o msg.output],
        cmd |-> NilCmd]

\* Update on runFinishedMsg (lines 244-269)
CatUpdateFinished(mm, msg) ==
  IF msg.cmdText = ProbeText
  THEN [m |-> IF msg.err # "nil"
               THEN [mm EXCEPT !.devtunnelFound = FALSE, !.statusErr = TRUE,
                               !.statusText = "devtunnel not found in PATH"]
               ELSE [mm EXCEPT !.devtunnelFound = TRUE, !.statusErr = FALSE,
                               !.statusText = "ready"],
        cmd |-> NilCmd]
  ELSE [m |-> [mm EXCEPT !.running = FALSE,
                         !.lastOutput = msg.output,
                         !.statusErr = (msg.err # "nil"),
                         !.statusText = IF msg.err # "nil" THEN "command failed"
                                        ELSE "command completed",
                         !.viewport = "$ " \o msg.cmdText \o "\n\n" \o msg.output],
        cmd |-> NilCmd]

\* Update on tea.WindowSizeMsg (lines 217-227, 338-340)
CatUpdateSize(mm, msg) ==
  [m |-> IF ~mm.ready
         THEN [mm EXCEPT !.width = msg.width, !.height = msg.height,
                         !.viewportWidth = max(20, msg.width - 64),
                         !.viewportHeight = max(8, msg.height - 10),
                         !.viewport = "Output will appear here",
                         !.ready = TRUE]
         ELSE [mm EXCEPT !.width = msg.width, !.height = msg.height,
                         !.viewportWidth = max(20, msg.width - 64),
                         !.viewportHeight = max(8, msg.height - 10)],
   cmd |-> UiCmd]

\* the pane sizes of renderMain (lines 598-601)
renderMain(mm) ==
  LET leftW == max(20, mm.width \div 5)
      midW == max(36, mm.width \div 3)
  IN [leftW |-> leftW, midW |-> midW,
      rightW |-> max(30, mm.width - leftW - midW - 4),
      height |-> max(8, mm.height - 6)]

\* model.Update of part_000
CatUpdate(mm, msg) ==
  CASE msg.type = "KeyMsg" -> CatUpdateKey(mm, msg.key)
    [] msg.type = "runStartedMsg" -> CatUpdateStarted(mm, msg)
    [] msg.type = "runFinishedMsg" -> CatUpdateFinished(mm, msg)
    [] msg.type = "WindowSizeMsg" -> CatUpdateSize(mm, msg)

-----------------------------------------------------------------------------
(* the process runner and the probe                                        *)

\* ctx.Err() once the deadline has passed
DeadlineExceeded == "context deadline exceeded"

\* the notice appended on a timeout (main.go line 399, part_000 line 548)
TimeoutNotice(v) ==
  IF v = "flat" THEN "\n\nTimed out after 5 minutes."
  ELSE "\n\nTimed out after 10 minutes."

\* what command.Run() may return: nil, a non-zero exit, a failure to start
\* the executable, or the kill that the expired context sends
RunErrors == {"nil", "exit status 1", "executable file not found", "signal: killed"}

\* the result as it would be without the test of ctx.Err(): whatever Run
\* returned, with the output as captured
runResult_RunError(v, cmdText, out, err, expired) ==
  runFinishedMsg(cmdText, out, err)

\* the second function of runCommandCmd's sequence once Run has returned err
\* with out captured; expired is errors.Is(ctx.Err(), context.DeadlineExceeded)
runResult(v, cmdText, out, err, expired) ==
  IF expired
  THEN runFinishedMsg(cmdText, out \o TimeoutNotice(v), DeadlineExceeded)
  ELSE runFinishedMsg(cmdText, out, err)

\* the outcomes of one child process: (output, Run's error, deadline seen).
\* The context kills the child only when the deadline has passed, and a
\* child that could not be started has written nothing.
ChildOutcomes ==
  {o \in [out : Outputs \cup {""}, err : RunErrors, expired : BOOLEAN] :
     /\ (o.err = "signal: killed" => o.expired)
     /\ (o.err = "executable file not found" <=> o.out = "")}

\* checkBinaryCmd as it would be if the probe announced itself the way
\* runCommandCmd does, with a runStartedMsg ahead of its result
checkBinaryCmd_Started(v, found) ==
  <<runStartedMsg(ProbeText)>> \o
  (IF v = "flat"
   THEN IF found
        THEN <<runFinishedMsg(ProbeText, "devtunnel found and ready", "nil")>>
        ELSE <<runFinishedMsg(ProbeText, "devtunnel was not found in PATH",
                              "executable file not found")>>
   ELSE IF found
        THEN <<runFinishedMsg(ProbeText, "devtunnel detected", "nil")>>
        ELSE <<runFinishedMsg(ProbeText, "devtunnel not found in PATH",
                              "executable file not found")>>)

\* checkBinaryCmd: the messages the probe command delivers, found being
\* whether exec.LookPath("devtunnel") succeeds
checkBinaryCmd(v, found) ==
  IF v = "flat"
  THEN IF found
       THEN <<runFinishedMsg(ProbeText, "devtunnel found and ready", "nil")>>
       ELSE <<runFinishedMsg(ProbeText, "devtunnel was not found in PATH",
                             "executable file not found")>>
  ELSE IF found
       THEN <<runFinishedMsg(ProbeText, "devtunnel detected", "nil")>>
       ELSE <<runFinishedMsg(ProbeText, "devtunnel not found in PATH",
                             "executable file not found")>>

-----------------------------------------------------------------------------
(* the event loop                                                          *)

Update(v, mm, msg) == IF v = "flat" THEN FlatUpdate(mm, msg) ELSE CatUpdate(mm, msg)

\* the text fields of the model
TextFields(v, mm) ==
  IF v = "flat"
  THEN {mm.customCmdInput} \cup {mm.promptInputs[i] : i \in 1..Len(mm.promptInputs)}
  ELSE {mm.cmdInput, mm.filterInput}
       \cup {mm.formInputs[i] : i \in 1..Len(mm.formInputs)}

\* the number of executions dispatched so far
Dispatched == Cardinality(DOMAIN log) - 1

\* the commands of runCommandCmd as tea.Batch would run them: the second
\* without waiting for the message of the first
SequenceNext_Batch(got) == got \in {<<>>, <<"runStartedMsg">>}

\* tea.Sequence as it would be if it ran its first command only
SequenceNext_FirstOnly(got) == FALSE

\* tea.Sequence runs its second command only after the message of the first
\* has been taken by the event loop: got is what Update has applied so far
\* for the execution
SequenceNext(got) == got = <<"runStartedMsg">>

\* The operator presses key k: Update runs on the key message and the
\* command it returns is handed to the runtime.  A sequence gets the next
\* execution id.  The operator types characters of the alphabet only, and no
\* field beyond maxLen of them.
PressOf(k, maxLen, alphabet) ==
  /\ ~quit
  /\ \E r \in {Update(variant, m, KeyMsg(k))} :
       /\ \A t \in TextFields(variant, r.m) :
            Len(t) <= maxLen /\ \A j \in 1..Len(t) : t[j] \in alphabet
       /\ m' = r.m
       /\ quit' = (r.cmd.kind = "quit")
       /\ IF r.cmd.kind = "sequence"
          THEN LET id == Dispatched + 1
               IN /\ runs' = Append(runs, [id |-> id, parts |-> r.cmd.parts,
                                           cmdText |-> r.cmd.cmdText])
                  /\ log' = [i \in 0..id |-> IF i = id THEN <<>> ELSE log[i]]
          ELSE UNCHANGED <<runs, log>>
  /\ UNCHANGED <<variant, probe>>

\* a key whose texts stay within the typed alphabet
Press(k, maxLen) == PressOf(k, maxLen, Chars)

\* The first function of a sequence: its runStartedMsg reaches Update.
Started(i) ==
  /\ ~quit
  /\ log[runs[i].id] = <<>>
  /\ LET msg == runStartedMsg(runs[i].cmdText)
     IN /\ m' = Update(variant, m, msg).m
        /\ log' = [log EXCEPT ![runs[i].id] = Append(@, msg.type)]
  /\ UNCHANGED <<variant, probe, runs, quit>>

\* The second function of a sequence: the child process ends one way or
\* another, the finished message reaches Update and the sequence is over.
Finished(i) ==
  /\ ~quit
  /\ SequenceNext(log[runs[i].id])
  /\ \E o \in ChildOutcomes :
       LET msg == runResult(variant, runs[i].cmdText, o.out, o.err, o.expired)
       IN /\ m' = Update(variant, m, msg).m
          /\ log' = [log EXCEPT ![runs[i].id] = Append(@, msg.type)]
  /\ runs' = SubSeq(runs, 1, i - 1) \o SubSeq(runs, i + 1, Len(runs))
  /\ UNCHANGED <<variant, probe, quit>>

\* The probe command that Init batches delivers its next message.
Probe ==
  /\ ~quit
  /\ probe # <<>>
  /\ LET msg == Head(probe)
     IN /\ m' = Update(variant, m, msg).m
        /\ log' = [log EXCEPT ![0] = Append(@, msg.type)]
  /\ probe' = Tail(probe)
  /\ UNCHANGED <<variant, runs, quit>>

Deliver ==
  \/ Probe
  \/ \E i \in 1..Len(runs) : Started(i)
  \/ \E i \in 1..Len(runs) : Finished(i)

\* initialModel() of the variant
initialModel(v) == IF v = "flat" THEN initialModelFlat ELSE initialModelCat

\* The program starts: main hands initialModel() to the runtime, and Init
\* batches checkBinaryCmd, whose LookPath finds the tool or not.
Init ==
  /\ variant \in {"flat", "cat"}
  /\ m = initialModel(variant)
  /\ \E found \in BOOLEAN : probe = checkBinaryCmd(variant, found)
  /\ runs = <<>>
  /\ log = [i \in {0} |-> <<>>]
  /\ quit = FALSE

\* The keys that move the cursor.
CursorKeys ==
  IF variant = "flat" THEN {"up", "down"}
  ELSE {"left", "right", "up", "down", "g", "G", "1", "2", "3", "4", "5", "6"}

\* The operator chooses a command: the cursor moves before anything is typed
\* or dispatched.
KeyCursor == \E k \in CursorKeys : Dispatched = 0 /\ Press(k, 0)

\* The keys of a session that opens and leaves the modes, dispatches and
\* reruns without typing.
RunKeys ==
  IF variant = "flat" THEN {"ctrl+c", "q", "r", "enter", "esc"}
  ELSE {"ctrl+c", "q", "r", "enter", "esc", ":", "/"}

KeyRun == \E k \in RunKeys : Dispatched < MaxRuns /\ Press(k, 0)

Next == KeyCursor \/ KeyRun \/ Deliver

Spec == Init /\ [][Next]_vars

\* The keys of a session that types into the prompts, up to its first
\* dispatch.
TextKeys ==
  IF variant = "flat" THEN {"enter", "esc"} \cup Chars
  ELSE {"enter", "esc", ":"} \cup Chars

KeyText == \E k \in TextKeys : Dispatched = 0 /\ Press(k, MaxLen)

NextText == KeyCursor \/ KeyText \/ Deliver

SpecText == Init /\ [][NextText]_vars


-----------------------------------------------------------------------------
(* navigation and the filter line                                          *)

\* what the operator types into the filter line: a letter in both cases and
\* the blank
FilterChars == {"l", "L", " "}

\* the keys of a session of navigation: cursor and category keys and "/" in
\* Normal mode, the characters, backspace, enter and esc on the filter line
NavKeys ==
  IF variant = "flat" THEN {"up", "down", "j", "k"}
  ELSE IF m.filterMode THEN {"esc", "enter", "backspace"} \cup FilterChars
  ELSE {"left", "right", "h", "l", "up", "down", "j", "k", "g", "G",
        "1", "2", "3", "4", "5", "6", "/"}

KeyNav == \E k \in NavKeys : PressOf(k, MaxLen, FilterChars)

NextNav == KeyNav \/ Probe

SpecNav == Init /\ [][NextNav]_vars

-----------------------------------------------------------------------------
(* the window                                                              *)

\* the widths and heights a terminal reports: none at all, a few cells, the
\* sizes at which the clamps of the two variants begin to give way, and
\* large ones
Widths == {0, 1, 2, 3, 4, 5, 20, 64, 84, 85, 120, 200}
Heights == {0, 1, 6, 10, 14, 18, 22, 23, 50}

\* The terminal reports its size: Update runs on the WindowSizeMsg.
Resize ==
  /\ ~quit
  /\ \E w \in Widths, h \in Heights :
       m' = Update(variant, m, WindowSizeMsg(w, h)).m
  /\ UNCHANGED <<variant, probe, runs, log, quit>>

NextSize == Resize \/ Probe

SpecSize == Init /\ [][NextSize]_vars

-----------------------------------------------------------------------------
(* fairness                                                                *)

\* The runtime runs every command it is handed in a goroutine of its own and
\* passes every message to Update, and a child process ends at its deadline
\* at the latest: a delivery that stays possible is made.  Keys are the
\* operator's, who owes none.
SpecFair == Spec /\ WF_vars(Deliver)
-----------------------------------------------------------------------------
(* what the properties speak of                                            *)

StartedMsg == "runStartedMsg"
FinishedMsg == "runFinishedMsg"

\* the executions in flight: dispatched, their result not yet applied
InFlight == Len(runs)

\* the keys an operator has
AllKeys ==
  {"ctrl+c", "q", "r", "enter", "esc", ":", "/", "?", "up", "down", "j", "k",
   "left", "right", "g", "G", "1", "6"} \cup Chars

\* the last command the model remembers
LastCommand(mm) == IF variant = "flat" THEN mm.lastCommand ELSE mm.lastCmd

\* the status line of the model
StatusOf(mm) == IF variant = "flat" THEN mm.status ELSE mm.statusText

\* no prompt, form, raw-command line or filter line is open
NormalMode(mm) ==
  IF variant = "flat" THEN ~mm.inPrompt /\ mm.activeCommand = <<>>
  ELSE ~mm.formMode /\ ~mm.cmdMode /\ ~mm.filterMode /\ mm.formCmd = <<>>

\* the form that Enter would reach, if one is open: its command, the texts
\* typed into its fields, the field that has the focus
FormCmd == IF variant = "flat" THEN m.activeCommand ELSE m.formCmd
FormTexts == IF variant = "flat" THEN m.promptInputs ELSE m.formInputs
FormIndex == IF variant = "flat" THEN m.promptIndex ELSE m.formIndex
FormOpen ==
  IF variant = "flat"
  THEN m.inPrompt /\ ~m.running /\ FormCmd # <<>> /\ FormCmd[1].label # "custom"
  ELSE m.formMode /\ FormCmd # <<>>
FormRequired == IF variant = "flat" THEN FormCmd[1].requiredArgs ELSE FormCmd[1].required
FormOptional == IF variant = "flat" THEN FormCmd[1].optionalArg ELSE FormCmd[1].optional
AtFinalField == FormOpen /\ FormIndex = Len(FormTexts) - 1

\* the raw-command line that Enter would reach, if it is open, and its text
RawOpen ==
  IF variant = "flat"
  THEN m.inPrompt /\ ~m.running /\ m.activeCommand # <<>>
       /\ m.activeCommand[1].label = "custom"
  ELSE m.cmdMode /\ ~m.formMode
RawText == IF variant = "flat" THEN m.customCmdInput ELSE m.cmdInput

\* a text of nothing but white space
Blank(t) == \A i \in 1..Len(t) : t[i] = " "

\* a text without the white space at its two ends
Trimmed(t) ==
  LET ink == {i \in 1..Len(t) : t[i] # " "}
  IN IF ink = {} THEN ""
     ELSE Str(SubSeq(t, CHOOSE i \in ink : \A j \in ink : i <= j,
                        CHOOSE i \in ink : \A j \in ink : j <= i))

\* the white-space separated tokens of a text: its maximal stretches free of
\* white space, from left to right
Tokens(t) ==
  LET starts == {i \in 1..Len(t) : t[i] # " " /\ (i = 1 \/ t[i - 1] = " ")}
      ends == {i \in 1..Len(t) : t[i] # " " /\ (i = Len(t) \/ t[i + 1] = " ")}
      nth(S, k) == CHOOSE i \in S : Cardinality({j \in S : j < i}) = k - 1
  IN [k \in 1..Cardinality(starts) |-> Str(SubSeq(t, nth(starts, k), nth(ends, k)))]

\* the vector the open form stands for
FormVector ==
  <<"devtunnel">> \o FormCmd[1].baseArgs
    \o [i \in 1..Len(FormRequired) |-> Trimmed(FormTexts[i])]
    \o (IF FormOptional # "" THEN Tokens(FormTexts[Len(FormTexts)]) ELSE <<>>)

\* what Update answers to Enter in the current state
OnEnter == Update(variant, m, KeyMsg("enter"))

\* a model that differs from mm in the tool flag and the status at most
SameButToolAndStatus(a, b) ==
  IF variant = "flat"
  THEN b = [a EXCEPT !.devtunnelFound = b.devtunnelFound, !.status = b.status]
  ELSE b = [a EXCEPT !.devtunnelFound = b.devtunnelFound,
                     !.statusText = b.statusText, !.statusErr = b.statusErr]

-----------------------------------------------------------------------------
(* C1 .. C10                                                               *)

\* C1: in the flat variant at most one execution is in flight at any time,
\* also when a second dispatching key is handled after a dispatch and before
\* that dispatch's runStartedMsg has been applied.
C1_FlatOneInFlight == variant = "flat" => InFlight <= 1

\* C2: in the categorized variant, while an execution is outstanding no key
\* dispatches a second one, so at most one execution is in flight.
C2_CatNoDispatchWhileOutstanding ==
  (variant = "cat" /\ InFlight >= 1) =>
    \A k \in AllKeys : Update(variant, m, KeyMsg(k)).cmd.kind # "sequence"

\* C3: in the categorized variant, in every reachable state where
\* devtunnelFound is false no key produces a runCommandCmd invocation.
C3_CatDispatchGuard ==
  (variant = "cat" /\ ~m.devtunnelFound) =>
    \A k \in AllKeys : Update(variant, m, KeyMsg(k)).cmd.kind # "sequence"

\* C4: in the flat variant, in every reachable state where devtunnelFound is
\* false nothing has been and nothing is dispatched: Enter only sets the
\* status "install devtunnel CLI first", r finds no last command, and no
\* other key returns a runCommandCmd.
C4_FlatDispatchGuard ==
  (variant = "flat" /\ ~m.devtunnelFound) =>
    /\ Dispatched = 0
    /\ m.lastCommand = <<>>
    /\ OnEnter = [m |-> [m EXCEPT !.status = "install devtunnel CLI first"],
                  cmd |-> NilCmd]
    /\ \A k \in AllKeys : Update(variant, m, KeyMsg(k)).cmd.kind # "sequence"

\* the tool was not found, the cursor is on "custom" and Enter was pressed
C4_Witness ==
  /\ variant = "flat" /\ ~m.devtunnelFound
  /\ log[0] = <<FinishedMsg>>
  /\ m.selected = Len(defaultCommands) - 1
  /\ m.status = "install devtunnel CLI first"

\* C5: for every execution runCommandCmd built, Update is given at most one
\* started and one finished message, the started one first; an execution
\* whose sequence is over has had exactly one of each.
C5_StartedThenFinished ==
  \A i \in 1..Dispatched :
    /\ log[i] \in {<<>>, <<StartedMsg>>, <<StartedMsg, FinishedMsg>>}
    /\ (log[i] = <<StartedMsg, FinishedMsg>>) <=> (\A j \in 1..Len(runs) : runs[j].id # i)

\* one execution is over while another has started and not finished
C5_Witness ==
  /\ \E i \in 1..Dispatched : log[i] = <<StartedMsg, FinishedMsg>>
  /\ \E j \in 1..Len(runs) : log[runs[j].id] = <<StartedMsg>>

\* C6 as stated: the probe's finished notification is preceded by a started
\* notification of the probe.
C6_ProbeStartedFirst ==
  \A j \in 1..Len(log[0]) :
    log[0][j] = FinishedMsg => \E i \in 1..(j - 1) : log[0][i] = StartedMsg

\* C6 as amended: the probe delivers one notification only, a finished one
\* with the command text "which devtunnel"; no started notification of the
\* probe comes before or after it.
C6_ProbeFinishedOnly ==
  /\ \A j \in 1..Len(probe) :
       probe[j].type = FinishedMsg /\ probe[j].cmdText = "which devtunnel"
  /\ log[0] \in {<<>>, <<FinishedMsg>>}
  /\ Len(probe) + Len(log[0]) = 1

\* the probe has delivered its result and the tool was found
C6_Witness == probe = <<>> /\ log[0] = <<FinishedMsg>> /\ m.devtunnelFound

\* C7: applying the probe's finished message changes the tool flag and the
\* status (text and, categorized, error flag) and nothing else of the model,
\* nor the executions in flight.
C7_ProbeFrame ==
  [][log'[0] # log[0] => SameButToolAndStatus(m, m') /\ runs' = runs]_vars

\* the probe's result arrived while a raw command was running
C7_Witness ==
  /\ variant = "cat" /\ log[0] = <<FinishedMsg>>
  /\ m.running /\ InFlight = 1
  /\ m.statusText = "devtunnel not found in PATH"

\* C8 as stated: Enter on the final field of a form whose required values
\* are non-empty dispatches [devtunnel] + baseArgs + the trimmed required
\* values in order + the tokens of the optional text.
C8_FormVectorNonEmpty ==
  (AtFinalField /\ \A i \in 1..Len(FormRequired) : FormTexts[i] # <<>>) =>
    OnEnter.cmd = runCommandCmd(FormVector)

\* C8 as amended: the same of a form whose required values are non-empty
\* after trimming.
C8_FormVector ==
  (AtFinalField /\ \A i \in 1..Len(FormRequired) : ~Blank(FormTexts[i])) =>
    OnEnter.cmd = runCommandCmd(FormVector)

\* "show" was submitted with the required value a and the optional text "a a"
C8_Witness ==
  /\ variant = "flat" /\ InFlight = 1
  /\ runs[1].parts = <<"devtunnel", "show", "a", "a", "a">>
  /\ m.promptInputs = << <<"a">>, <<"a", " ", "a">> >>

C10_RawVectorNonEmpty ==
  (RawOpen /\ RawText # <<>>) =>
    \A r \in {OnEnter} :
      /\ r.cmd = runCommandCmd(<<"devtunnel">> \o Tokens(RawText))
      /\ LastCommand(r.m) = <<"devtunnel">> \o Tokens(RawText)

\* C10 as amended: the same of a raw text with a character that is not
\* white space.
C10_RawVector ==
  (RawOpen /\ ~Blank(RawText)) =>
    \A r \in {OnEnter} :
      /\ r.cmd = runCommandCmd(<<"devtunnel">> \o Tokens(RawText))
      /\ LastCommand(r.m) = <<"devtunnel">> \o Tokens(RawText)

\* the raw text "a a" was submitted
C10_Witness ==
  /\ InFlight = 1 /\ runs[1].parts = <<"devtunnel", "a", "a">>
  /\ RawText = <<"a", " ", "a">>
  /\ LastCommand(m) = <<"devtunnel", "a", "a">>

-----------------------------------------------------------------------------
(* C11 .. C30                                                              *)

\* C11: in both variants Enter on a raw-command text that is empty or only
\* white space returns to Normal mode, dispatches nothing and leaves the
\* status, the last command and the last output as they were.
C11_RawBlankSilent ==
  (RawOpen /\ Blank(RawText)) =>
    \A r \in {OnEnter} :
      /\ r.cmd = NilCmd
      /\ NormalMode(r.m)
      /\ StatusOf(r.m) = StatusOf(m)
      /\ variant = "cat" => r.m.statusErr = m.statusErr
      /\ LastCommand(r.m) = LastCommand(m)
      /\ r.m.lastOutput = m.lastOutput

\* a raw-command line holding two blanks was left: Normal mode again, still
\* nothing dispatched, no command recorded, the status that of the probe
C11_Witness ==
  /\ NormalMode(m) /\ RawText = <<" ", " ">>
  /\ Dispatched = 0 /\ InFlight = 0 /\ LastCommand(m) = <<>>
  /\ m.lastOutput = "" /\ log[0] = <<FinishedMsg>>

\* the text a command is matched against: its name, its description and its
\* base arguments
Haystack(item) ==
  Runes(item.name) \o <<" ">> \o Runes(item.description) \o <<" ">>
    \o JoinRunes(item.baseArgs)

\* two characters that are equal up to the case of a letter
SameLetter(a, b) ==
  a = b \/ \E j \in 1..26 : {a, b} = {UpperCase[j], LowerCase[j]}

\* text occurs in hay, the case of letters disregarded
Occurs(text, hay) ==
  \E off \in 0..(Len(hay) - Len(text)) :
    \A j \in 1..Len(text) : SameLetter(hay[off + j], text[j])

\* the commands of a list that text occurs in, in the order of the list
Matching(items, text) == SelectSeq(items, LAMBDA it : Occurs(text, Haystack(it)))

\* a text without the white space at its two ends, as characters
Inner(t) ==
  LET ink == {i \in 1..Len(t) : t[i] # " "}
  IN IF ink = {} THEN <<>>
     ELSE SubSeq(t, CHOOSE i \in ink : \A j \in ink : i <= j,
                    CHOOSE i \in ink : \A j \in ink : j <= i)

C13_CursorInRange ==
  IF variant = "flat"
  THEN m.selected \in 0..(Len(defaultCommands) - 1)
  ELSE Len(visibleCommands(m)) > 0 =>
         m.cmdIdx \in 0..(Len(visibleCommands(m)) - 1)

\* G has put the cursor on the last command of a list that a filter has
\* narrowed, and that is not its first
C13_Witness ==
  /\ variant = "cat" /\ ~m.filterMode /\ m.filterInput # <<>>
  /\ Len(visibleCommands(m)) < Len(catalog[m.catIdx + 1].commands)
  /\ m.cmdIdx = Len(visibleCommands(m)) - 1 /\ m.cmdIdx > 0

\* C14: in the categorized variant, in Normal mode, the Down key moves the
\* command cursor one down unless it is on the last visible command, the Up
\* key one up unless it is on the first; at either end the cursor stays.
C14_UpDownMoveCursor ==
  (variant = "cat" /\ NormalMode(m)) =>
    /\ \A k \in {"down", "j"} :
         Update(variant, m, KeyMsg(k)).m.cmdIdx =
           IF m.cmdIdx < Len(visibleCommands(m)) - 1 THEN m.cmdIdx + 1 ELSE m.cmdIdx
    /\ \A k \in {"up", "k"} :
         Update(variant, m, KeyMsg(k)).m.cmdIdx =
           IF m.cmdIdx > 0 THEN m.cmdIdx - 1 ELSE m.cmdIdx

\* the model is not busy: the flat variant blocks keys while running is set
NotBusy(mm) == variant = "flat" => ~mm.running

\* C15: the last-command vector is the vector of the latest dispatch; r in
\* Normal mode, not busy, after some dispatch dispatches exactly that vector
\* and changes nothing in the model (no form opens, the last command stays),
\* and does nothing at all when nothing was dispatched yet.
C15_Rerun ==
  /\ [](\A r \in {Update(variant, m, KeyMsg("r"))} :
          (NormalMode(m) /\ NotBusy(m)) =>
            /\ r.m = m
            /\ IF Dispatched > 0 THEN r.cmd = runCommandCmd(LastCommand(m))
               ELSE r.cmd.kind \notin {"sequence", "quit"})
  /\ [][IF Dispatched' > Dispatched
        THEN LastCommand(m') = runs'[Len(runs')].parts
        ELSE LastCommand(m') = LastCommand(m)]_vars

\* a first execution has ended and r has dispatched its vector again
C15_Witness ==
  /\ Dispatched = 2 /\ log[1] = <<StartedMsg, FinishedMsg>>
  /\ InFlight = 1 /\ runs[1].id = 2 /\ log[2] = <<>>
  /\ runs[1].parts = LastCommand(m) /\ NormalMode(m) /\ NotBusy(m)

\* C16: in both variants, whenever running is set, q and ctrl+c make Update
\* return the quit command, whatever prompt, form, command or filter mode is
\* open.
C16_QuitWhileRunning ==
  m.running =>
    \A k \in {"q", "ctrl+c"} : Update(variant, m, KeyMsg(k)).cmd = QuitCmd

\* the fields of the flat model that a key can change: the selection
\* cursor, the prompt mode and its fields, the help flag, the status, the
\* last command and the last output
FlatKeyFields(mm) ==
  <<mm.selected, mm.inPrompt, mm.promptIndex, mm.activeCommand, mm.promptInputs,
    mm.promptValues, mm.currentPrompt, mm.customCmdInput, mm.showHelp,
    mm.status, mm.lastCommand, mm.lastCommandText, mm.lastOutput>>

\* C17: in the flat variant, while running is set, every key other than q
\* and ctrl+c leaves the selection cursor, the prompt mode and fields, the
\* help flag, the status, the last command and the last output as they were
\* and dispatches nothing.
C17_FlatKeysIgnoredWhileRunning ==
  (variant = "flat" /\ m.running) =>
    \A k \in (AllKeys \cup {"backspace", "tab"}) \ {"q", "ctrl+c"} :
      \A r \in {Update(variant, m, KeyMsg(k))} :
        /\ FlatKeyFields(r.m) = FlatKeyFields(m)
        /\ r.cmd.kind \notin {"sequence", "quit"}

\* a command runs while a prompt, opened before its runStartedMsg was
\* applied, is still open
C17_Witness == variant = "flat" /\ m.running /\ m.inPrompt /\ InFlight > 0

\* the executions whose runStartedMsg has been applied and whose child
\* process is therefore under way
Underway == {i \in 1..Len(runs) : log[runs[i].id] = <<StartedMsg>>}

\* the ends of a child process that the expired deadline had to kill
KilledAtDeadline == {o \in ChildOutcomes : o.expired /\ o.err = "signal: killed"}

\* C18: a child process still running when the deadline expires yields a
\* finished message with the deadline error and with the output captured so
\* far followed by the timeout notice; applying that message clears running
\* and sets the status to "command failed".
C18_Timeout ==
  \A i \in Underway : \A o \in KilledAtDeadline :
    \A msg \in {runResult(variant, runs[i].cmdText, o.out, o.err, o.expired)} :
      /\ msg.type = FinishedMsg /\ msg.cmdText = runs[i].cmdText
      /\ msg.err = "context deadline exceeded"
      /\ msg.output = o.out \o (IF variant = "flat"
                                THEN "\n\nTimed out after 5 minutes."
                                ELSE "\n\nTimed out after 10 minutes.")
      /\ \A r \in {Update(variant, m, msg)} :
           ~r.m.running /\ StatusOf(r.m) = "command failed"

\* an execution of the categorized variant has ended by the deadline: its
\* one finished message is applied, the output ends in the notice
C18_Witness ==
  /\ variant = "cat" /\ Dispatched = 1 /\ InFlight = 0
  /\ log[1] = <<StartedMsg, FinishedMsg>>
  /\ m.lastOutput = "out\n\nTimed out after 10 minutes."
  /\ ~m.running /\ m.statusText = "command failed"

\* C19: after any window-size message the width and the height of the
\* output viewport and every pane width and height the renderer computes
\* from the stored size are at least 1.
C19_PaneSizesPositive ==
  m.ready =>
    /\ m.viewportWidth >= 1 /\ m.viewportHeight >= 1
    /\ IF variant = "flat" THEN boxWidth(m) >= 1
       ELSE \A r \in {renderMain(m)} :
              r.leftW >= 1 /\ r.midW >= 1 /\ r.rightW >= 1 /\ r.height >= 1

\* the ends of a child process that are failures: it could not be started,
\* it left with a non-zero status, or the deadline passed
Failures == {o \in ChildOutcomes : o.err # "nil" \/ o.expired}

\* C20: every failed execution ends in a finished message; once Update has
\* applied it, running is false, the status is "command failed", the output
\* pane and the last output hold the output of the message, and in Normal
\* mode r dispatches again.  No finished message, of a failure or not, quits
\* the application or leaves running set.
C20_FailureNotFatal ==
  \A i \in Underway : \A o \in ChildOutcomes :
    \A msg \in {runResult(variant, runs[i].cmdText, o.out, o.err, o.expired)} :
      \A r \in {Update(variant, m, msg)} :
        /\ msg.type = FinishedMsg
        /\ r.cmd.kind # "quit" /\ ~r.m.running
        /\ o \in Failures =>
             /\ msg.err # "nil"
             /\ StatusOf(r.m) = "command failed"
             /\ r.m.lastOutput = msg.output
             /\ r.m.viewport = "$ " \o runs[i].cmdText \o "\n\n" \o msg.output
             /\ NormalMode(r.m) =>
                  Update(variant, r.m, KeyMsg("r")).cmd
                    = runCommandCmd(LastCommand(r.m))

\* an execution of the categorized variant has ended with a non-zero status
\* and some output: not busy, the failure shown, Normal mode
C20_Witness ==
  /\ variant = "cat" /\ Dispatched = 1 /\ InFlight = 0
  /\ log[1] = <<StartedMsg, FinishedMsg>>
  /\ ~m.running /\ m.statusErr /\ m.statusText = "command failed"
  /\ m.lastOutput = "out" /\ NormalMode(m)

\* the model after the keys of a sequence, one Update each, and whether any
\* of them made Update return an execution
RECURSIVE AfterKeys(_, _)
AfterKeys(mm, keys) ==
  IF keys = <<>> THEN [m |-> mm, dispatched |-> FALSE]
  ELSE LET r == Update(variant, mm, KeyMsg(Head(keys)))
           rest == AfterKeys(r.m, Tail(keys))
       IN [m |-> rest.m, dispatched |-> rest.dispatched \/ r.cmd.kind = "sequence"]

\* what an operator may type into a mode before leaving it: up to two
\* characters or backspaces
TypedKeys == UNION {[1..n -> Chars \cup {"backspace"}] : n \in 0..2}

\* the keys that open a mode from Normal mode
EntryKeys == IF variant = "flat" THEN {"enter"} ELSE {"/", ":", "enter"}

\* the command cursor and the list it points into
CursorOf(mm) == IF variant = "flat" THEN mm.selected ELSE mm.cmdIdx
VisibleOf(mm) == IF variant = "flat" THEN defaultCommands ELSE visibleCommands(mm)

\* C21: Esc in filter, raw-command or form mode, after any keys typed there,
\* returns to Normal mode and dispatches nothing; the cursor, the visible
\* list, the status, the last command and the last output are those of the
\* moment the mode was entered, and the text entered is gone: entering the
\* mode again shows it as it was first entered.
C21_EscRestores ==
  (NormalMode(m) /\ NotBusy(m)) =>
    \A e \in EntryKeys : \A opened \in {Update(variant, m, KeyMsg(e))} :
      ~NormalMode(opened.m) =>
        \A keys \in TypedKeys : \A r \in {AfterKeys(opened.m, keys \o <<"esc">>)} :
          /\ NormalMode(r.m) /\ ~r.dispatched
          /\ CursorOf(r.m) = CursorOf(opened.m)
          /\ VisibleOf(r.m) = VisibleOf(opened.m)
          /\ StatusOf(r.m) = StatusOf(opened.m)
          /\ LastCommand(r.m) = LastCommand(opened.m)
          /\ r.m.lastOutput = opened.m.lastOutput
          /\ Update(variant, r.m, KeyMsg(e)).m = opened.m

\* C22: in the categorized variant the command cursor is 0 right after every
\* step that changes the filter text and right after every step that changes
\* the category cursor.
C22_CursorResets ==
  [][(variant = "cat" /\ (m'.filterInput # m.filterInput \/ m'.catIdx # m.catIdx))
       => m'.cmdIdx = 0]_vars

\* a filter has been typed in a category reached by category keys, and the
\* cursor is on the first command
C22_Witness ==
  /\ variant = "cat" /\ m.catIdx = 3 /\ m.filterInput = <<"l", "L">>
  /\ m.filterMode /\ m.cmdIdx = 0

\* the digit keys, in the order of the categories they stand for
DigitKeys == <<"1", "2", "3", "4", "5", "6">>

\* C23: in the categorized variant the category cursor is an index of the
\* categories in every reachable state; in Normal mode Left at the first
\* category and Right at the last leave it where it is, and the digit key n
\* sets it to n-1.
C23_CategoryCursor ==
  variant = "cat" =>
    /\ m.catIdx \in 0..(Len(catalog) - 1)
    /\ NormalMode(m) =>
         /\ \A k \in {"left", "h"} :
              m.catIdx = 0 => Update(variant, m, KeyMsg(k)).m.catIdx = 0
         /\ \A k \in {"right", "l"} :
              m.catIdx = Len(catalog) - 1 =>
                Update(variant, m, KeyMsg(k)).m.catIdx = Len(catalog) - 1
         /\ \A n \in 1..6 :
              Update(variant, m, KeyMsg(DigitKeys[n])).m.catIdx = n - 1

\* the last category is selected, in Normal mode, with a filter in place
C23_Witness ==
  /\ variant = "cat" /\ NormalMode(m) /\ m.catIdx = Len(catalog) - 1
  /\ m.filterInput = <<"l">> /\ probe = <<>>

\* Enter would act on a command: Normal mode, not busy, the tool found, a
\* command under the cursor
EnterReady ==
  /\ NormalMode(m) /\ NotBusy(m) /\ m.devtunnelFound
  /\ variant = "cat" => m.cmdIdx < Len(visibleCommands(m))

\* the command under the cursor, its labels, and whether it is the entry
\* that stands for the raw-command line
SelectedCmd == VisibleOf(m)[CursorOf(m) + 1]
RequiredOf(c) == IF variant = "flat" THEN c.requiredArgs ELSE c.required
OptionalOf(c) == IF variant = "flat" THEN c.optionalArg ELSE c.optional
IsRawEntry(c) == IF variant = "flat" THEN c.label = "custom" ELSE c.name = ": command mode"

\* the fields and the focus of the form that model mm shows, if it shows one
FormShown(mm) == IF variant = "flat" THEN mm.inPrompt ELSE mm.formMode
FieldsShown(mm) == IF variant = "flat" THEN mm.promptInputs ELSE mm.formInputs
FocusShown(mm) == IF variant = "flat" THEN mm.promptIndex ELSE mm.formIndex

\* what C24 says of Enter on command c with answer r
EnterRunsOrAsks(c, r) ==
  IF RequiredOf(c) = <<>> /\ OptionalOf(c) = ""
  THEN /\ r.cmd = runCommandCmd(<<"devtunnel">> \o c.baseArgs)
       /\ LastCommand(r.m) = <<"devtunnel">> \o c.baseArgs
       /\ NormalMode(r.m)
  ELSE /\ r.cmd.kind # "sequence"
       /\ FormShown(r.m)
       /\ Len(FieldsShown(r.m)) =
            Len(RequiredOf(c)) + (IF OptionalOf(c) # "" THEN 1 ELSE 0)
       /\ \A i \in 1..Len(FieldsShown(r.m)) : FieldsShown(r.m)[i] = <<>>
       /\ FocusShown(r.m) = 0

\* C24 as stated: with the tool found, Enter on a catalog command without
\* required and optional labels dispatches [devtunnel] and its base
\* arguments at once, records them and opens no form; on a command with
\* labels it opens a form of one empty field per label, the focus on the
\* first, and dispatches nothing.
C24_EnterOnAnyCommand ==
  EnterReady => EnterRunsOrAsks(SelectedCmd, OnEnter)

\* C24 as amended: the same of every catalog command but the entry that
\* opens the raw-command line.
C24_EnterOnCommand ==
  (EnterReady /\ ~IsRawEntry(SelectedCmd)) => EnterRunsOrAsks(SelectedCmd, OnEnter)

\* Enter on "token", one required and one optional label, has opened a form
\* of two fields; nothing is dispatched
C24_Witness ==
  /\ variant = "cat" /\ m.formMode /\ m.formTitle = "token"
  /\ m.formInputs = << <<>>, <<>> >> /\ m.formIndex = 0
  /\ Dispatched = 0 /\ LastCommand(m) = <<>>

\* C25: while a form is open its focus index is an index of its fields;
\* Enter on a field that is not the last moves the focus one field on and
\* keeps the form, the text of every field, the status and the last command,
\* and dispatches nothing, also when the field left is an empty required one.
C25_EnterAdvances ==
  FormOpen =>
    /\ FormIndex \in 0..(Len(FormTexts) - 1)
    /\ ~AtFinalField =>
         \A r \in {OnEnter} :
           /\ r.cmd.kind # "sequence"
           /\ FormShown(r.m) /\ FocusShown(r.m) = FormIndex + 1
           /\ FieldsShown(r.m) = FormTexts
           /\ StatusOf(r.m) = StatusOf(m)
           /\ LastCommand(r.m) = LastCommand(m)

\* the form of "token": Enter has left its required field empty, and the
\* optional field, now in focus, has a character typed
C25_Witness ==
  /\ variant = "cat" /\ m.formMode /\ m.formTitle = "token"
  /\ m.formIndex = 1 /\ m.formInputs = << <<>>, <<"a">> >>
  /\ Dispatched = 0

\* the modes of the categorized variant that are open in model mm
OpenModes(mm) ==
  {f \in {"filterMode", "cmdMode", "formMode"} : mm[f]}

\* C26: in the categorized variant at most one of filterMode, cmdMode and
\* formMode is set, and formMode implies a bound command with at least one
\* field; in the flat variant inPrompt implies a bound command.
C26_ModesExclusive ==
  IF variant = "cat"
  THEN /\ Cardinality(OpenModes(m)) <= 1
       /\ m.formMode => (m.formCmd # <<>> /\ Len(m.formInputs) >= 1)
  ELSE m.inPrompt => m.activeCommand # <<>>

\* a form is the one open mode, opened after an execution was dispatched
C26_Witness ==
  /\ variant = "cat" /\ OpenModes(m) = {"formMode"}
  /\ Len(m.formInputs) = 1 /\ Dispatched = 1

\* the finished message of execution id has been applied
Ended(id) == id \in DOMAIN log /\ \E j \in 1..Len(log[id]) : log[id][j] = FinishedMsg

\* C27: under fair delivery every dispatched execution has its finished
\* message applied at last, unless the application is quit; and whenever
\* every dispatched execution has ended, running is false.
C27_EventuallyFinished ==
  /\ \A id \in 1..MaxRuns : [](id \in DOMAIN log => <>(quit \/ Ended(id)))
  /\ []((\A id \in 1..Dispatched : Ended(id)) => ~m.running)

\* two executions were dispatched and both have ended; the machine is idle
C27_Witness ==
  /\ Dispatched = 2 /\ Ended(1) /\ Ended(2) /\ InFlight = 0
  /\ ~m.running /\ ~quit

\* the text of the output pane after the outcome o of the command text
PaneAfter(text, o) ==
  "$ " \o text \o "\n\n" \o runResult(variant, text, o.out, o.err, o.expired).output

\* C28: running is true in every state in which an execution has had its
\* started message applied and not yet its finished message; and once
\* nothing is in flight the output pane shows an outcome of the command
\* dispatched last.
C28_BusyWhileUnderway ==
  /\ Underway # {} => m.running
  /\ (Dispatched > 0 /\ InFlight = 0) =>
       \E o \in ChildOutcomes :
         m.viewport = PaneAfter(Join(LastCommand(m), " "), o)

\* C29: the finished message of an execution carries the deadline error and
\* the timeout notice only if the deadline had to end the child; a child
\* that ended by itself is reported with the error Run returned and the
\* output as captured, whenever the deadline passes.
C29_TimeoutOnlyWhenKilled ==
  \A i \in Underway : \A o \in ChildOutcomes :
    \A msg \in {runResult(variant, runs[i].cmdText, o.out, o.err, o.expired)} :
      /\ msg.err = "context deadline exceeded" => o.err = "signal: killed"
      /\ o.err # "signal: killed" => (msg.err = o.err /\ msg.output = o.out)

\* a step that applies the finished message of the execution in runs[i]
EndsRun(i) ==
  /\ i \in 1..Len(runs)
  /\ runs[i].id \in DOMAIN log'
  /\ log'[runs[i].id] = Append(log[runs[i].id], FinishedMsg)

=============================================================================
